---- MODULE Spec2Model ----
(***************************************************************************)
(* Model of the user-instance-ability router of easy-panel                 *)
(* (src/unnamed/part_000) and of the GPT-4 quota widget                    *)
(* (src/unnamed/part_001).                                                 *)
(*                                                                         *)
(* The ability table is a set of rows; a grant runs as a database          *)
(* transaction whose writes stay private to the call until it commits.     *)
(* A statement that touches a (userId, instanceId) key another open        *)
(* transaction has written waits for that transaction to end, which is     *)
(* what INSERT ... ON CONFLICT does on a unique index.                     *)
(***************************************************************************)
EXTENDS Integers, Sequences, FiniteSets, TLC

VARIABLES abilities, isActive, calls, proc, reply, data, rendered

vars == <<abilities, isActive, calls, proc, reply, data, rendered>>
widgetVars == <<data, rendered>>

-----------------------------------------------------------------------------
(* Bounds of the model *)

MaxCalls == 2
MaxPersonal == 41
MaxTeam == 101

-----------------------------------------------------------------------------
(* The tables the router reads but never writes. "u9" and "i9" are the ids
   of no user and of no instance; CHATGPT_SHARED stands for the types
   createDefaultInstanceData has no case for. *)

UserTable == <<"u1", "u2">>

InstanceTable ==
  << [id |-> "i1", type |-> "POEKMON_SHARED"],
     [id |-> "i2", type |-> "API_SHARE"],
     [id |-> "i3", type |-> "CHATGPT_SHARED"] >>

InstanceIds == {"i1", "i2", "i3", "i9"}

Procs == {"p1", "p2"}

Range(s) == {s[k] : k \in 1..Len(s)}

Null == [null |-> TRUE]

Users == Range(UserTable)

InstanceDataOf(id) ==
  IF id = "i2"
  THEN [type |-> "API_SHARE",
        models |-> << [code |-> "m1", tags |-> {"a"}],
                      [code |-> "m2", tags |-> {"b"}] >>]
  ELSE Null

(* The lists of instance ids an administrator passes to grantInstancesToUser *)
GrantBatches ==
  << <<"i1", "i1">>, <<"i1">>, <<"i1", "i2">>, <<"i2", "i9">>, <<>> >>

-----------------------------------------------------------------------------
(* createDefaultInstanceData *)

(* Variant: the API_SHARE case is missing *)
createDefaultInstanceDataNoApiShare(type) ==
  CASE type = "POEKMON_SHARED" ->
         [type |-> type, chat_ids |-> <<>>, chat_codes |-> <<>>,
          bot_ids |-> <<>>, available_points |-> -1]
    [] OTHER -> Null

createDefaultInstanceData(type) ==
  CASE type = "POEKMON_SHARED" ->
         [type |-> type, chat_ids |-> <<>>, chat_codes |-> <<>>,
          bot_ids |-> <<>>, available_points |-> -1]
    [] type = "API_SHARE" ->
         [type |-> type, tag_whitelist |-> <<>>]
    [] OTHER -> Null

-----------------------------------------------------------------------------
(* Results of a call *)

NoResult == [kind |-> "none", message |-> "", missingIds |-> <<>>]
Ok == [kind |-> "OK", message |-> "", missingIds |-> <<>>]
Err(code, msg) == [kind |-> code, message |-> msg, missingIds |-> <<>>]
ErrMissing(ids) ==
  [kind |-> "NOT_FOUND", message |-> "Some Instance not found", missingIds |-> ids]

IdleProc ==
  [pc |-> "idle", op |-> "none", userIds |-> <<>>, instanceIds |-> <<>>,
   updateCanUse |-> FALSE, todo |-> <<>>, ins |-> {}, upd |-> {},
   result |-> NoResult, t0 |-> 0]

(* The call ends with an error: the transaction, if open, is rolled back *)
Failed(c, res) ==
  [c EXCEPT !.pc = "done", !.todo = <<>>, !.ins = {}, !.upd = {}, !.result = res]

(* The call ends after the commit; its record keeps the rows it wrote
   until the call returns *)
Succeeded(c) == [c EXCEPT !.pc = "done", !.todo = <<>>, !.result = Ok]

-----------------------------------------------------------------------------
(* The ability table and the writes of the open transactions *)

Key(r) == <<r.userId, r.instanceId>>

InTransaction(q) == proc[q].pc \in {"loop", "commit"}

(* The keys an open transaction has written and holds until it ends *)
WrittenKeys(q) ==
  IF InTransaction(q)
  THEN {Key(r) : r \in proc[q].ins} \cup {Key(w.new) : w \in proc[q].upd}
  ELSE {}

UsedTokens ==
  {r.token : r \in abilities}
    \cup UNION {{r.token : r \in proc[q].ins} : q \in {x \in Procs : InTransaction(x)}}

(* generateId(24): a random identifier. A collision with a token in use has
   negligible probability and the identifiers are opaque, so the identifier
   generated for a row is named by the row's key and a serial number: the
   first such name that is not in use. *)
RECURSIVE generateId(_, _, _)
generateId(key, n, used) ==
  IF <<key, n>> \in used THEN generateId(key, n + 1, used) ELSE <<key, n>>

(* tx.query.serviceInstances.findMany({ where: inArray(id, instanceIds) }) *)
findManyInstances(instanceIds) ==
  SelectSeq(InstanceTable, LAMBDA inst : inst.id \in Range(instanceIds))

missingIdsOf(instanceIds, instances) ==
  SelectSeq(instanceIds,
            LAMBDA id : ~ \E k \in 1..Len(instances) : instances[k].id = id)

(* Variant: the conflict target also names the token column *)
ConflictsWithToken(r, v) ==
  r.userId = v.userId /\ r.instanceId = v.instanceId /\ r.token = v.token

(* target: [userInstanceAbilities.userId, userInstanceAbilities.instanceId] *)
Conflicts(r, v) == r.userId = v.userId /\ r.instanceId = v.instanceId

(* Variant: the conflict clause also overwrites the token *)
OnConflictSetToken(r, v, now) ==
  [r EXCEPT !.canUse = TRUE, !.updatedAt = now, !.token = v.token]

(* set: { canUse: true, updatedAt: new Date() } *)
OnConflictSet(r, v, now) == [r EXCEPT !.canUse = TRUE, !.updatedAt = now]

(* userIds.map((userId) => ({ userId, instanceId, token, canUse: true, data })) *)
ValuesFor(userIds, instance, now) ==
  LET d == createDefaultInstanceData(instance.type)
  IN  { [userId |-> userIds[k], instanceId |-> instance.id,
         token |-> generateId(<<userIds[k], instance.id>>, 1, UsedTokens), canUse |-> TRUE,
         data |-> d, updatedAt |-> now] : k \in 1..Len(userIds) }

(* new Date(): the clock advances when a call arrives *)
now == calls

(* The table as the transaction of c leaves it when it commits *)
Committed(table, c) ==
  (table \ {w.old : w \in c.upd}) \cup {w.new : w \in c.upd} \cup c.ins

-----------------------------------------------------------------------------
(* grantInstancesToUser: the user lookup, outside the transaction *)

grantInstancesToUser(p, userId, instanceIds) ==
  /\ proc[p].pc = "idle"
  /\ calls < MaxCalls
  /\ calls' = calls + 1
  /\ LET c == [IdleProc EXCEPT !.op = "grantInstancesToUser",
                               !.userIds = <<userId>>,
                               !.instanceIds = instanceIds,
                               !.updateCanUse = TRUE, !.t0 = calls + 1]
     IN  IF userId \notin Users
         THEN proc' = [proc EXCEPT ![p] = Failed(c, Err("NOT_FOUND", "User not found"))]
         ELSE proc' = [proc EXCEPT ![p] = [c EXCEPT !.pc = "find"]]
  /\ UNCHANGED <<abilities, isActive, reply, widgetVars>>

(* Variant: the select has no where clause *)
grantInstanceToAllUsers(p, instanceId) ==
  /\ proc[p].pc = "idle"
  /\ calls < MaxCalls
  /\ calls' = calls + 1
  /\ proc' = [proc EXCEPT ![p] =
                 [IdleProc EXCEPT !.op = "grantInstanceToAllActiveUsers",
                                  !.userIds = UserTable,
                                  !.instanceIds = <<instanceId>>,
                                  !.updateCanUse = TRUE, !.t0 = calls + 1,
                                  !.pc = "find"]]
  /\ UNCHANGED <<abilities, isActive, reply, widgetVars>>

(* grantInstanceToAllActiveUsers: the select of the active users, outside
   the transaction *)
grantInstanceToAllActiveUsers(p, instanceId) ==
  /\ proc[p].pc = "idle"
  /\ calls < MaxCalls
  /\ calls' = calls + 1
  /\ LET userIds == SelectSeq(UserTable, LAMBDA u : isActive[u])
     IN  proc' = [proc EXCEPT ![p] =
                    [IdleProc EXCEPT !.op = "grantInstanceToAllActiveUsers",
                                     !.userIds = userIds,
                                     !.instanceIds = <<instanceId>>,
                                     !.updateCanUse = TRUE, !.t0 = calls + 1,
                                     !.pc = "find"]]
  /\ UNCHANGED <<abilities, isActive, reply, widgetVars>>

(* batchCreateAbilities: findMany and the check of the number of instances.
   inArray over an empty list throws in the older releases of the query
   builder and matches no row in the newer ones. *)
BatchFind(p) ==
  /\ proc[p].pc = "find"
  /\ LET c == proc[p]
         instances == findManyInstances(c.instanceIds)
     IN  \/ /\ c.instanceIds = <<>>
            /\ proc' = [proc EXCEPT ![p] =
                 Failed(c, Err("INTERNAL_SERVER_ERROR", "inArray requires at least one value"))]
         \/ /\ Len(instances) # Len(c.instanceIds)
            /\ proc' = [proc EXCEPT ![p] =
                 Failed(c, ErrMissing(missingIdsOf(c.instanceIds, instances)))]
         \/ /\ Len(instances) = Len(c.instanceIds)
            /\ proc' = [proc EXCEPT ![p] =
                 [c EXCEPT !.todo = instances,
                           !.pc = IF instances = <<>> THEN "commit" ELSE "loop"]]
  /\ UNCHANGED <<abilities, isActive, calls, reply, widgetVars>>

(* The rows one statement of the loop inserts and the rows it updates:
   insert(...).values(values).onConflictDoUpdate(...) when updateCanUse,
   insert(...).values(values).onConflictDoNothing() otherwise *)
UpsertWrites(c, values) ==
  [ins |-> {v \in values : \A r \in abilities : ~Conflicts(r, v)},
   upd |-> IF c.updateCanUse
           THEN {[old |-> x[1], new |-> OnConflictSet(x[1], x[2], now)] :
                    x \in {y \in abilities \X values : Conflicts(y[1], y[2])}}
           ELSE {}]

(* Variant: the statements run on db instead of tx, so each one is
   committed on its own *)
BatchUpsertOnDb(p) ==
  /\ proc[p].pc = "loop"
  /\ LET c == proc[p]
         values == ValuesFor(c.userIds, Head(c.todo), now)
         writes == UpsertWrites(c, values)
         rest == Tail(c.todo)
     IN  /\ values # {}
         /\ \A q \in Procs \ {p} : WrittenKeys(q) \cap {Key(v) : v \in values} = {}
         /\ abilities' = Committed(abilities, writes)
         /\ proc' = [proc EXCEPT ![p] =
              [c EXCEPT !.todo = rest,
                        !.pc = IF rest = <<>> THEN "commit" ELSE "loop"]]
  /\ UNCHANGED <<isActive, calls, reply, widgetVars>>

(* batchCreateAbilities: one iteration of the loop, the insert of the rows
   of one instance. values([]) throws; the statement waits while another
   open transaction has written one of its keys. *)
BatchUpsert(p) ==
  /\ proc[p].pc = "loop"
  /\ LET c == proc[p]
         values == ValuesFor(c.userIds, Head(c.todo), now)
         writes == UpsertWrites(c, values)
         rest == Tail(c.todo)
     IN  IF values = {}
         THEN proc' = [proc EXCEPT ![p] =
                Failed(c, Err("INTERNAL_SERVER_ERROR",
                              "values() must be called with at least one value"))]
         ELSE /\ \A q \in Procs \ {p} : WrittenKeys(q) \cap {Key(v) : v \in values} = {}
              /\ proc' = [proc EXCEPT ![p] =
                   [c EXCEPT !.todo = rest,
                             !.ins = c.ins \cup writes.ins,
                             !.upd = c.upd \cup writes.upd,
                             !.pc = IF rest = <<>> THEN "commit" ELSE "loop"]]
  /\ UNCHANGED <<abilities, isActive, calls, reply, widgetVars>>

(* batchCreateAbilities: the transaction commits *)
BatchCommit(p) ==
  /\ proc[p].pc = "commit"
  /\ abilities' = Committed(abilities, proc[p])
  /\ proc' = [proc EXCEPT ![p] = Succeeded(proc[p])]
  /\ UNCHANGED <<isActive, calls, reply, widgetVars>>

(* The call returns its result to the administrator *)
Return(p) ==
  /\ proc[p].pc = "done"
  /\ proc' = [proc EXCEPT ![p] = IdleProc]
  /\ UNCHANGED <<abilities, isActive, calls, reply, widgetVars>>

-----------------------------------------------------------------------------
(* The other writers of the two tables: an administrator disables an
   ability (the row keeps its token) and a user's active flag changes. *)

Revoke(u, i) ==
  /\ \A q \in Procs : <<u, i>> \notin WrittenKeys(q)
  /\ \E r \in abilities :
       /\ Key(r) = <<u, i>>
       /\ r.canUse
       /\ abilities' = (abilities \ {r}) \cup {[r EXCEPT !.canUse = FALSE]}
  /\ UNCHANGED <<isActive, calls, proc, reply, widgetVars>>

SetUserActive(u, b) ==
  /\ isActive[u] # b
  /\ isActive' = [isActive EXCEPT ![u] = b]
  /\ UNCHANGED <<abilities, calls, proc, reply, widgetVars>>

-----------------------------------------------------------------------------------------------------------------------------------------------------
(* verifyUserAbility *)

NoToken == <<<<"none", "none">>, 0>>

NoReply ==
  [op |-> "none", instanceId |-> "none", userToken |-> NoToken,
   sessionUserId |-> "none", kind |-> "none", userId |-> "none", models |-> <<>>]

(* findFirst: a row of the set, or nothing when the set is empty *)
findFirst(rows) == IF rows = {} THEN {Null} ELSE rows

(* Variant: the check of canUse is missing *)
verifyOutcomeNoCanUse(instanceToken, instanceId) ==
  IF instanceToken = Null
  THEN [kind |-> "UNAUTHORIZED", userId |-> "none"]
  ELSE IF instanceToken.instanceId # instanceId
  THEN [kind |-> "UNAUTHORIZED", userId |-> "none"]
  ELSE [kind |-> "OK", userId |-> instanceToken.userId]

verifyOutcome(instanceToken, instanceId) ==
  IF instanceToken = Null
  THEN [kind |-> "UNAUTHORIZED", userId |-> "none"]
  ELSE IF instanceToken.instanceId # instanceId
  THEN [kind |-> "UNAUTHORIZED", userId |-> "none"]
  ELSE IF instanceToken.canUse = FALSE
  THEN [kind |-> "FORBIDDEN", userId |-> "none"]
  ELSE [kind |-> "OK", userId |-> instanceToken.userId]

verifyLookup(table, instanceId, userToken) ==
  findFirst({r \in table : r.instanceId = instanceId /\ r.token = userToken})

verifyUserAbility(instanceId, userToken) ==
  /\ \E instanceToken \in verifyLookup(abilities, instanceId, userToken) :
       LET out == verifyOutcome(instanceToken, instanceId)
       IN  reply' = [NoReply EXCEPT !.op = "verifyUserAbility",
                                    !.instanceId = instanceId,
                                    !.userToken = userToken,
                                    !.kind = out.kind, !.userId = out.userId]
  /\ UNCHANGED <<abilities, isActive, calls, proc, widgetVars>>

-----------------------------------------------------------------------------
(* getAPIShareAvailableModels *)

(* helpers/api-share: a model is available when one of its tags is in the
   user's tag_whitelist, or when the whitelist is empty *)
filterUserAvailableModels(instanceData, userData) ==
  SelectSeq(instanceData.models,
            LAMBDA m : userData.tag_whitelist = <<>>
                       \/ m.tags \cap Range(userData.tag_whitelist) # {})

(* Variant: the ability is looked up before the type is checked *)
modelsOutcomeAbilityFirst(table, sessionUserId, id) ==
  LET found == SelectSeq(InstanceTable, LAMBDA inst : inst.id = id)
      held == {r \in table : r.instanceId = id /\ r.userId = sessionUserId}
  IN  IF found = <<>>
      THEN {[kind |-> "NOT_FOUND", models |-> <<>>]}
      ELSE IF held = {}
      THEN {[kind |-> "FORBIDDEN", models |-> <<>>]}
      ELSE IF found[1].type # "API_SHARE"
      THEN {[kind |-> "INTERNAL_SERVER_ERROR", models |-> <<>>]}
      ELSE {[kind |-> "OK",
             models |-> filterUserAvailableModels(InstanceDataOf(id), r.data)] :
               r \in held}

(* Variant: a disabled ability is refused *)
modelsOutcomeCanUse(table, sessionUserId, id) ==
  LET found == SelectSeq(InstanceTable, LAMBDA inst : inst.id = id)
  IN  IF found = <<>>
      THEN {[kind |-> "NOT_FOUND", models |-> <<>>]}
      ELSE IF found[1].type # "API_SHARE"
      THEN {[kind |-> "INTERNAL_SERVER_ERROR", models |-> <<>>]}
      ELSE { IF userInstance = Null \/ ~userInstance.canUse
             THEN [kind |-> "FORBIDDEN", models |-> <<>>]
             ELSE [kind |-> "OK",
                   models |-> filterUserAvailableModels(InstanceDataOf(id),
                                                        userInstance.data)] :
             userInstance \in findFirst({r \in table : r.instanceId = id
                                                        /\ r.userId = sessionUserId}) }

(* The replies the call can give on the table *)
modelsOutcome(table, sessionUserId, id) ==
  LET found == SelectSeq(InstanceTable, LAMBDA inst : inst.id = id)
  IN  IF found = <<>>
      THEN {[kind |-> "NOT_FOUND", models |-> <<>>]}
      ELSE IF found[1].type # "API_SHARE"
      THEN {[kind |-> "INTERNAL_SERVER_ERROR", models |-> <<>>]}
      ELSE { IF userInstance = Null
             THEN [kind |-> "FORBIDDEN", models |-> <<>>]
             ELSE [kind |-> "OK",
                   models |-> filterUserAvailableModels(InstanceDataOf(id),
                                                        userInstance.data)] :
             userInstance \in findFirst({r \in table : r.instanceId = id
                                                        /\ r.userId = sessionUserId}) }

getAPIShareAvailableModels(sessionUserId, id) ==
  /\ \E out \in modelsOutcome(abilities, sessionUserId, id) :
       reply' = [NoReply EXCEPT !.op = "getAPIShareAvailableModels",
                                !.instanceId = id,
                                !.sessionUserId = sessionUserId,
                                !.kind = out.kind, !.models = out.models]
  /\ UNCHANGED <<abilities, isActive, calls, proc, widgetVars>>

(* The caller takes the reply *)
Deliver ==
  /\ reply # NoReply
  /\ reply' = NoReply
  /\ UNCHANGED <<abilities, isActive, calls, proc, widgetVars>>

-----------------------------------------------------------------------------
(* InstanceGpt4UsageList: the quota widget *)

PersonalQuota == 40
TeamQuota == 100

RECURSIVE SumCounts(_)
SumCounts(counts) ==
  IF counts = <<>> THEN 0 ELSE Head(counts).count + SumCounts(Tail(counts))

(* data?.counts.reduce((acc, item) => acc + item.count, 0) ?? 0 *)
totalCount(d) == IF d.loaded THEN SumCounts(d.counts) ELSE 0

(* data?.counts.find((item) => item.chatgptAccountId === "personal")?.count ?? 0 *)
personalCount(d) ==
  LET found == SelectSeq(d.counts, LAMBDA item : item.chatgptAccountId = "personal")
  IN  IF d.loaded /\ found # <<>> THEN found[1].count ELSE 0

teamCount(d) == totalCount(d) - personalCount(d)

items(d) ==
  << [label |-> "Personal", value |-> personalCount(d), quota |-> PersonalQuota],
     [label |-> "Team", value |-> teamCount(d), quota |-> TeamQuota] >>

(* item.value / item.quota, kept as the fraction. The quotient of two
   integers and the literals 0.3 and 0.6 are each rounded to the nearest
   double, and a quotient with a quota of 40 or 100 that is not 0.3 (0.6)
   is at least 1/1000 away from it, so the comparison of the doubles is
   the comparison of the fractions. *)
Percentage(item) == [num |-> item.value, den |-> item.quota]

Below(pct, tenths) == 10 * pct.num < tenths * pct.den

getBackgroundColor(value) ==
  IF Below(value, 3) THEN "bg-green-500"
  ELSE IF Below(value, 6) THEN "bg-yellow-500"
  ELSE "bg-red-500"

getTextColor(value) ==
  IF Below(value, 3) THEN "text-green-200"
  ELSE IF Below(value, 6) THEN "text-yellow-200"
  ELSE "text-red-200"

(* Variant: the idle bound is inclusive *)
getStatusLabelInclusive(percentage) ==
  IF 10 * percentage.num <= 3 * percentage.den THEN "idle"
  ELSE IF Below(percentage, 6) THEN "busy"
  ELSE "crowded"

getStatusLabel(percentage) ==
  IF Below(percentage, 3) THEN "idle"
  ELSE IF Below(percentage, 6) THEN "busy"
  ELSE "crowded"

Render(d) ==
  [k \in 1..2 |->
     LET item == items(d)[k]
         percentage == Percentage(item)
     IN  [label |-> item.label, value |-> item.value, quota |-> item.quota,
          pointColor |-> getBackgroundColor(percentage),
          textColor |-> getTextColor(percentage),
          status |-> getStatusLabel(percentage),
          indicatorClassName |-> getBackgroundColor(percentage)]]

(* The results of groupGPT4LogsInDurationWindowByInstance the next fetch
   can bring: one row per account; since the last fetch one GPT-4 request
   was logged, or one left the 3h window *)
MaxCount(account) == IF account = "personal" THEN MaxPersonal ELSE MaxTeam

QueryResults(d) ==
  IF ~d.loaded THEN {[loaded |-> TRUE, counts |-> <<>>]}
  ELSE LET have == {d.counts[k].chatgptAccountId : k \in 1..Len(d.counts)}
       IN  {[d EXCEPT !.counts = Append(d.counts, [chatgptAccountId |-> a, count |-> 1])] :
               a \in {"personal", "team"} \ have}
           \cup {[d EXCEPT !.counts[k].count = @ + 1] :
                   k \in {j \in 1..Len(d.counts) :
                            d.counts[j].count < MaxCount(d.counts[j].chatgptAccountId)}}
           \cup {[d EXCEPT !.counts[k].count = @ - 1] :
                   k \in {j \in 1..Len(d.counts) : d.counts[j].count > 0}}

(* The query settles and the component renders again *)
Refetch(d) ==
  /\ data' = d
  /\ rendered' = Render(d)
  /\ UNCHANGED <<abilities, isActive, calls, proc, reply>>

-----------------------------------------------------------------------------
(* The service *)

NoData == [counts |-> <<>>, loaded |-> FALSE]

(* The users the administrator names, and the instance ids of the calls *)
GrantUsers == {"u1", "u9"}

(* The user whose active flag changes while the service runs, and the user
   whose abilities an administrator disables *)
ToggledUsers == {"u2"}
RevokedUsers == {"u1"}

(* The token a proxy presents: one in the table, or one never issued *)
TokenInputs == {NoToken} \cup {r.token : r \in abilities}

(* The connections are interchangeable: the second one is used while the
   first one is busy *)
Free(p) == p = "p1" \/ proc["p1"].pc # "idle"

Init ==
  /\ abilities = {}
  /\ isActive \in {f \in [Users -> BOOLEAN] : \A u \in ToggledUsers : f[u]}
  /\ calls = 0
  /\ proc = [p \in Procs |-> IdleProc]
  /\ reply = NoReply
  /\ data = NoData
  /\ rendered = Render(NoData)

(* No reply is waiting for its caller *)
Quiet == reply = NoReply

Admin(P) ==
  \/ \E p \in P, u \in GrantUsers, k \in 1..Len(GrantBatches) :
       Quiet /\ Free(p) /\ grantInstancesToUser(p, u, GrantBatches[k])
  \/ \E p \in P, i \in InstanceIds :
       Quiet /\ Free(p) /\ grantInstanceToAllActiveUsers(p, i)
  \/ \E p \in P : Quiet /\ BatchFind(p)
  \/ \E p \in P : Quiet /\ BatchUpsert(p)
  \/ \E p \in P : Quiet /\ BatchCommit(p)
  \/ \E p \in P : Quiet /\ Return(p)

Env ==
  \/ \E u \in RevokedUsers, i \in InstanceIds : Quiet /\ Revoke(u, i)
  \/ \E u \in ToggledUsers, b \in BOOLEAN : Quiet /\ SetUserActive(u, b)

(* A read is one step, and its reply is taken before the next step, so a
   state that holds a reply holds the table the reply was computed from *)
Reads ==
  \/ \E i \in InstanceIds, t \in TokenInputs : Quiet /\ verifyUserAbility(i, t)
  \/ \E u \in Users, i \in InstanceIds : Quiet /\ getAPIShareAvailableModels(u, i)
  \/ Deliver

(* Concurrent administrator calls *)
NextGrant == Admin(Procs) \/ Env

SpecGrant == Init /\ [][NextGrant]_vars

(* The proxy and the panel read while one administrator connection writes *)
NextRead == Admin({"p1"}) \/ Env \/ Reads

SpecRead == Init /\ [][NextRead]_vars

(* The quota widget refetches *)
NextWidget == \E d \in QueryResults(data) : Refetch(d)

SpecWidget == Init /\ [][NextWidget]_vars

-----------------------------------------------------------------------------
(* Properties *)

RowsOf(table, u, i) == {r \in table : r.userId = u /\ r.instanceId = i}

Batch(c) == Range(c.userIds) \X Range(c.instanceIds)

Commits(p) == proc[p].pc = "commit" /\ proc'[p].pc = "done"

(* C1: when a grant (grantInstancesToUser or grantInstanceToAllActiveUsers)
   commits, every pair of its batch that already had an ability row has
   exactly one row afterwards, with the token and the data it had, with
   canUse = true, and with an updatedAt that is not older than the call. *)
C1_RegrantKeepsTokenAndData ==
  [][\A p \in Procs :
       Commits(p) =>
         \A k \in Batch(proc[p]) :
           \A r \in RowsOf(abilities, k[1], k[2]) :
             LET after == RowsOf(abilities', k[1], k[2])
             IN  /\ Cardinality(after) = 1
                 /\ \A x \in after :
                      /\ x.token = r.token
                      /\ x.data = r.data
                      /\ x.canUse = TRUE
                      /\ x.updatedAt >= proc[p].t0
                      /\ x.updatedAt <= calls]_vars

(* C1 witness: a call has committed the re-grant of a row that was disabled *)
C1_Witness ==
  \E p \in Procs :
    /\ proc[p].pc = "done"
    /\ proc[p].result.kind = "OK"
    /\ \E w \in proc[p].upd :
         /\ ~w.old.canUse
         /\ w.old.updatedAt < w.new.updatedAt
         /\ w.new \in abilities

-----------------------------------------------------------------------------
TypeOf(id) ==
  LET found == SelectSeq(InstanceTable, LAMBDA inst : inst.id = id)
  IN  IF found = <<>> THEN "none" ELSE found[1].type

ExistingInstanceIds == {InstanceTable[k].id : k \in 1..Len(InstanceTable)}

(* An administrator disables one ability *)
RevokeStep ==
  \E r \in abilities :
    r.canUse /\ abilities' = (abilities \ {r}) \cup {[r EXCEPT !.canUse = FALSE]}

(* C2: a grant is all or nothing. While its transaction is open none of
   its rows can be read (verifyUserAbility finds no row for a token it is
   about to issue, and a row it updates still reads as before); a call that
   ends with an error leaves the table as it is; and the table changes
   only when a transaction commits, which writes the rows of every
   (user, instance) pair of its batch at once, or when an ability is
   disabled. *)
C2_GrantIsAtomic ==
  /\ [](\A p \in Procs :
          InTransaction(p) =>
            /\ \A r \in proc[p].ins :
                 /\ r \notin abilities
                 /\ verifyLookup(abilities, r.instanceId, r.token) = {Null}
            /\ \A w \in proc[p].upd : w.old \in abilities)
  /\ [][/\ \A p \in Procs :
             (proc[p].pc # "done" /\ proc'[p].pc = "done"
                /\ proc'[p].result.kind # "OK") => abilities' = abilities
        /\ abilities' # abilities =>
             \/ RevokeStep
             \/ \E p \in Procs :
                  /\ Commits(p)
                  /\ proc'[p].result.kind = "OK"
                  /\ \A k \in Batch(proc[p]) :
                       \E x \in RowsOf(abilities', k[1], k[2]) :
                         x.canUse /\ x.updatedAt >= proc[p].t0
                  /\ \A x \in (abilities' \ abilities) \cup (abilities \ abilities') :
                       Key(x) \in Batch(proc[p])]_vars

(* C2 witness: one call has failed on the batch <<i2, i9>> and has left no
   row for i2, while another call is between the two statements of its
   batch and none of what it wrote is in the table *)
C2_Witness ==
  /\ proc["p1"].pc = "done"
  /\ proc["p1"].instanceIds = <<"i2", "i9">>
  /\ proc["p1"].result.kind = "NOT_FOUND"
  /\ proc["p1"].result.missingIds = <<"i9">>
  /\ RowsOf(abilities, "u1", "i2") = {}
  /\ proc["p2"].pc = "loop"
  /\ proc["p2"].ins # {}
  /\ proc["p2"].ins \cap abilities = {}

-----------------------------------------------------------------------------
(* The claim of C4 about one finished call of grantInstancesToUser *)
C4_Holds(c) ==
  LET userId == c.userIds[1]
      missing == Range(c.instanceIds) \ ExistingInstanceIds
  IN  /\ c.result.kind = "NOT_FOUND" <=> (userId \notin Users \/ missing # {})
      /\ (userId \in Users /\ missing # {}) =>
           /\ c.result.missingIds # <<>>
           /\ Range(c.result.missingIds) = missing
      /\ (userId \in Users /\ missing = {}) => c.result.kind = "OK"

(* C4: grantInstancesToUser fails with NotFound exactly when the user does
   not exist or an id of instanceIds does not resolve; the error then lists
   exactly the ids that do not exist, a non-empty list; and when the user
   exists and every id resolves, the grant succeeds for every list, the
   empty list and a list that names an instance twice included. *)
C4_NotFoundExactlyWhenMissing ==
  \A p \in Procs :
    (proc[p].pc = "done" /\ proc[p].op = "grantInstancesToUser") => C4_Holds(proc[p])

(* C4, on the lists it holds for: the same for every list of distinct ids
   that is not empty *)
C4_HoldsForDistinctIds ==
  \A p \in Procs :
    (/\ proc[p].pc = "done"
     /\ proc[p].op = "grantInstancesToUser"
     /\ proc[p].instanceIds # <<>>
     /\ Cardinality(Range(proc[p].instanceIds)) = Len(proc[p].instanceIds))
      => C4_Holds(proc[p])

(* C6: the data of every ability row, committed or still inside its
   transaction, is the default of the type of its instance: the five fields
   of POEKMON_SHARED, the two fields of API_SHARE, and nothing for any
   other type. *)
C6_DefaultDataMatchesType ==
  \A r \in abilities \cup UNION {proc[p].ins : p \in Procs} :
    /\ TypeOf(r.instanceId) = "POEKMON_SHARED" =>
         r.data = [type |-> "POEKMON_SHARED", chat_ids |-> <<>>, chat_codes |-> <<>>,
                   bot_ids |-> <<>>, available_points |-> -1]
    /\ TypeOf(r.instanceId) = "API_SHARE" =>
         r.data = [type |-> "API_SHARE", tag_whitelist |-> <<>>]
    /\ TypeOf(r.instanceId) \notin {"POEKMON_SHARED", "API_SHARE"} => r.data = Null

(* C6 witness: the table holds a row of each of the three kinds *)
C6_Witness ==
  /\ \E r \in abilities : TypeOf(r.instanceId) = "POEKMON_SHARED" /\ r.data.available_points = -1
  /\ \E r \in abilities : TypeOf(r.instanceId) = "API_SHARE" /\ r.data.tag_whitelist = <<>>
  /\ \E r \in abilities : TypeOf(r.instanceId) = "CHATGPT_SHARED" /\ r.data = Null

(* A call whose input can be granted: the user list is not empty and the
   instance ids are distinct ids of existing instances *)
Grantable(c) ==
  /\ c.userIds # <<>>
  /\ Range(c.userIds) \subseteq Users
  /\ c.instanceIds # <<>>
  /\ Range(c.instanceIds) \subseteq ExistingInstanceIds
  /\ Cardinality(Range(c.instanceIds)) = Len(c.instanceIds)

(* C7: no two ability rows share a (userId, instanceId); a grant whose
   input can be granted never fails, whatever runs beside it; a commit
   leaves exactly one row, with canUse = true, for every pair of its
   batch; and no step changes the token of a row. *)
C7_ConcurrentGrantsOneRow ==
  /\ [](/\ \A r1, r2 \in abilities : Key(r1) = Key(r2) => r1 = r2
        /\ \A p \in Procs :
             (proc[p].pc = "done" /\ Grantable(proc[p])) => proc[p].result.kind = "OK")
  /\ [][/\ \A r \in abilities :
             \E x \in abilities' : Key(x) = Key(r) /\ x.token = r.token
        /\ \A p \in Procs :
             Commits(p) =>
               \A k \in Batch(proc[p]) :
                 /\ Cardinality(RowsOf(abilities', k[1], k[2])) = 1
                 /\ \A x \in RowsOf(abilities', k[1], k[2]) : x.canUse]_vars

(* C7 witness: two calls that overlapped have both granted the same pair;
   the first inserted the row and the second met it as a conflict *)
C7_Witness ==
  /\ proc["p1"].pc = "done"
  /\ proc["p2"].pc = "done"
  /\ proc["p1"].result.kind = "OK"
  /\ proc["p2"].result.kind = "OK"
  /\ \E r \in proc["p1"].ins :
       \E w \in proc["p2"].upd :
         /\ w.old.token = r.token
         /\ Key(w.old) = Key(r)
         /\ RowsOf(abilities, r.userId, r.instanceId) = {w.new}

GrantAllCommits(p) ==
  Commits(p) /\ proc[p].op = "grantInstanceToAllActiveUsers"

(* What a commit of grantInstanceToAllActiveUsers does for the users of S
   and for the others *)
GrantedExactlyTo(p, S) ==
  LET i == proc[p].instanceIds[1]
  IN  /\ \A u \in S :
           /\ Cardinality(RowsOf(abilities', u, i)) = 1
           /\ \A x \in RowsOf(abilities', u, i) :
                /\ x.canUse
                /\ \A r \in RowsOf(abilities, u, i) :
                     x.token = r.token /\ x.data = r.data
      /\ \A u \in Users \ S :
           {r \in abilities' : r.userId = u} = {r \in abilities : r.userId = u}

(* C9 as stated: when grantInstanceToAllActiveUsers commits, every user
   who is active at that moment holds exactly one row for the instance,
   with canUse = true and the token and data of a row that existed, and no
   row of a user who is inactive at that moment was created or changed. *)
C9_ActiveAtCommit ==
  [][\A p \in Procs :
       GrantAllCommits(p) => GrantedExactlyTo(p, {u \in Users : isActive[u]})]_vars

(* C9 amended: the call takes the users that are active when it reads the
   user list, and its commit grants the instance to exactly those users;
   a flag that changes after the read does not change who is granted. *)
C9_ActiveAtRead ==
  [][\A p \in Procs :
       /\ (/\ proc[p].pc = "idle"
           /\ proc'[p].pc # "idle"
           /\ proc'[p].op = "grantInstanceToAllActiveUsers")
            => Range(proc'[p].userIds) = {u \in Users : isActive[u]}
       /\ GrantAllCommits(p) => GrantedExactlyTo(p, Range(proc[p].userIds))]_vars

(* C9 witness: the call has granted the instance to a user who was active
   when the list was read and is inactive now *)
C9_Witness ==
  \E p \in Procs :
    /\ proc[p].pc = "done"
    /\ proc[p].op = "grantInstanceToAllActiveUsers"
    /\ proc[p].result.kind = "OK"
    /\ \E r \in proc[p].ins : ~isActive[r.userId] /\ r \in abilities

-----------------------------------------------------------------------------
(* C3: the reply of verifyUserAbility to (instanceId, userToken) is
   Unauthorized when no row has that instanceId and that token, Forbidden
   when the row that has them has canUse = false, and otherwise the userId
   of that row; a userId is returned only for a row of the requested
   instance that has the token and canUse = true. *)
C3_VerifyOutcome ==
  reply.op = "verifyUserAbility" =>
    LET match == {r \in abilities : r.instanceId = reply.instanceId
                                    /\ r.token = reply.userToken}
    IN  /\ Cardinality(match) <= 1
        /\ reply.kind \in {"UNAUTHORIZED", "FORBIDDEN", "OK"}
        /\ match = {} => reply.kind = "UNAUTHORIZED"
        /\ \A r \in match :
             /\ ~r.canUse => reply.kind = "FORBIDDEN"
             /\ r.canUse => (reply.kind = "OK" /\ reply.userId = r.userId)
        /\ reply.kind = "OK" =>
             \E r \in abilities :
               /\ r.userId = reply.userId
               /\ r.instanceId = reply.instanceId
               /\ r.token = reply.userToken
               /\ r.canUse

(* C3 witness: the token of a disabled row was presented for its instance
   and refused as Forbidden, while the table also holds an enabled row *)
C3_Witness ==
  /\ reply.op = "verifyUserAbility"
  /\ reply.kind = "FORBIDDEN"
  /\ \E r \in abilities :
       r.token = reply.userToken /\ r.instanceId = reply.instanceId /\ ~r.canUse
  /\ \E r \in abilities : r.canUse

(* C5: getAPIShareAvailableModels answers NotFound when no instance has
   the id, InternalError when the instance is not of type API_SHARE,
   Forbidden when the session user holds no ability row for the API_SHARE
   instance, and a model list only when the instance exists, is API_SHARE
   and the user holds a row; and the call leaves the ability table as it
   is. *)
C5_ModelsErrorPrecedence ==
  /\ [](reply.op = "getAPIShareAvailableModels" =>
          LET id == reply.instanceId
              held == RowsOf(abilities, reply.sessionUserId, id)
          IN  /\ id \notin ExistingInstanceIds => reply.kind = "NOT_FOUND"
              /\ (id \in ExistingInstanceIds /\ TypeOf(id) # "API_SHARE")
                   => reply.kind = "INTERNAL_SERVER_ERROR"
              /\ (id \in ExistingInstanceIds /\ TypeOf(id) = "API_SHARE" /\ held = {})
                   => reply.kind = "FORBIDDEN"
              /\ reply.kind = "OK" <=>
                   (id \in ExistingInstanceIds /\ TypeOf(id) = "API_SHARE" /\ held # {}))
  /\ [][(reply'.op = "getAPIShareAvailableModels" /\ reply.op = "none")
          => abilities' = abilities]_vars

(* C5 witness: a user without a row asked for the models of the API_SHARE
   instance, which another user may use, and was refused as Forbidden *)
C5_Witness ==
  /\ reply.op = "getAPIShareAvailableModels"
  /\ reply.kind = "FORBIDDEN"
  /\ TypeOf(reply.instanceId) = "API_SHARE"
  /\ RowsOf(abilities, reply.sessionUserId, reply.instanceId) = {}
  /\ \E r \in abilities : r.instanceId = reply.instanceId

(* The table with the canUse flag of row r inverted *)
WithCanUseInverted(table, r) == (table \ {r}) \cup {[r EXCEPT !.canUse = ~r.canUse]}

(* C10: for a row of an API_SHARE instance, getAPIShareAvailableModels
   gives its user the same model list whether canUse is true or false,
   and never Forbidden, while verifyUserAbility refuses the token of the
   row as Forbidden when canUse is false. *)
C10_ModelsIgnoreCanUse ==
  \A r \in abilities :
    TypeOf(r.instanceId) = "API_SHARE" =>
      /\ modelsOutcome(abilities, r.userId, r.instanceId)
           = modelsOutcome(WithCanUseInverted(abilities, r), r.userId, r.instanceId)
      /\ \A out \in modelsOutcome(abilities, r.userId, r.instanceId) : out.kind = "OK"
      /\ ~r.canUse =>
           \A row \in verifyLookup(abilities, r.instanceId, r.token) :
             verifyOutcome(row, r.instanceId).kind = "FORBIDDEN"
      /\ (/\ reply.op = "getAPIShareAvailableModels"
          /\ reply.sessionUserId = r.userId
          /\ reply.instanceId = r.instanceId)
           => (reply.kind = "OK" /\ reply.models = InstanceDataOf(r.instanceId).models)

(* C10 witness: a user whose row is disabled has received the model list *)
C10_Witness ==
  /\ reply.op = "getAPIShareAvailableModels"
  /\ reply.kind = "OK"
  /\ reply.models # <<>>
  /\ \E r \in abilities :
       /\ r.userId = reply.sessionUserId
       /\ r.instanceId = reply.instanceId
       /\ ~r.canUse

-----------------------------------------------------------------------------
Class(e) ==
  IF 10 * e.value < 3 * e.quota THEN "idle"
  ELSE IF 10 * e.value < 6 * e.quota THEN "busy"
  ELSE "crowded"

(* C8: the widget shows Personal with quota 40 and Team with quota 100,
   the Team value being the total count less the count of the account
   "personal"; each status is idle exactly when value/quota < 0.3, busy
   exactly when 0.3 <= value/quota < 0.6 and crowded otherwise (12 of 40
   is busy, 11 of 40 is idle); and the point colour, the progress
   indicator colour, the text colour and the label name the same class. *)
C8_QuotaStatus ==
  /\ Len(rendered) = 2
  /\ rendered[1].label = "Personal" /\ rendered[1].quota = 40
  /\ rendered[2].label = "Team" /\ rendered[2].quota = 100
  /\ LET personal == {k \in 1..Len(data.counts) :
                          data.counts[k].chatgptAccountId = "personal"}
         others == (1..Len(data.counts)) \ personal
         CountOf(K) == IF K = {} THEN 0 ELSE data.counts[CHOOSE k \in K : TRUE].count
     IN  /\ Cardinality(personal) <= 1 /\ Cardinality(others) <= 1
         /\ rendered[1].value = CountOf(personal)
         /\ rendered[2].value = CountOf(others)
  /\ \A k \in 1..2 :
       LET e == rendered[k]
       IN  /\ e.value >= 0
           /\ e.status = Class(e)
           /\ e.value = 12 /\ e.quota = 40 => e.status = "busy"
           /\ e.value = 11 /\ e.quota = 40 => e.status = "idle"
           /\ <<e.status, e.pointColor, e.indicatorClassName, e.textColor>> \in
                { <<"idle", "bg-green-500", "bg-green-500", "text-green-200">>,
                  <<"busy", "bg-yellow-500", "bg-yellow-500", "text-yellow-200">>,
                  <<"crowded", "bg-red-500", "bg-red-500", "text-red-200">> }

(* C8 witness: Personal stands at 12 of 40 and is busy, Team at 29 of 100
   and is idle *)
C8_Witness ==
  /\ rendered[1].value = 12 /\ rendered[1].status = "busy"
  /\ rendered[1].pointColor = "bg-yellow-500"
  /\ rendered[2].value = 29 /\ rendered[2].status = "idle"

====
